---- MODULE Spec2Model ----
(***************************************************************************)
(* A model of example_step_workflow: the eight steps (Raw, Invert, Sum,    *)
(* Plot, MappedRaw, MappedInvert, MappedSum, Fancyplot), the prefect flow  *)
(* built by All.run and the All aggregator's pull/checkout/push/clean.     *)
(*                                                                         *)
(* The state is the local file system (files, directories, the rows of     *)
(* each step's manifest.csv), the step object of the run in progress (its  *)
(* in-memory manifest, its return value, the per-index tasks it submitted  *)
(* to the worker pool), the task states of the flow, and the All object.   *)
(* The fill loop of Fancyplot.run is modelled apart, on the values of the  *)
(* vectors it loads (SpecFill).                                            *)
(***************************************************************************)
EXTENDS Integers, Sequences, FiniteSets, TLC

\* ------------------------------------------------------------------ bounds
\* largest n passed to Raw.run / MappedRaw.run
MaxN == 2
\* longest list of paths passed directly to a downstream step
MaxLen == 2
\* number of operations (step runs, flow runs, aggregator calls) in a behaviour
MaxOps == 2
\* number of indices the flow maps over (the code maps over range(10, 100))
MaxFlow == 2
\* longest vector given to the fill loop of Fancyplot.run
MaxVecLen == 2

\* ------------------------------------------------------- names and paths
\* The decimal strings the model needs; Format is "{}".format(i) and
\* ParseInt is int(s), which raises ValueError on anything else.
Digits == <<"0", "1", "2", "3", "4", "5", "6", "7", "8", "9", "10", "11", "12", "13">>

Format(i) == Digits[i + 1]

IsInt(tok) == \E k \in 1..Len(Digits) : Digits[k] = tok

ParseInt(tok) == (CHOOSE k \in 1..Len(Digits) : Digits[k] = tok) - 1

\* A file name is the sequence of its tokens: "matrix_3.npy" is
\* <<"matrix", "_", "3", ".", "npy">>.
MatrixName(i) == <<"matrix", "_", Format(i), ".", "npy">>

VectorName(i) == <<"vector", "_", Format(i), ".", "npy">>

TargetName(i) == <<Format(i), ".", "npy">>

ManifestName == <<"manifest", ".", "csv">>

\* str.split(sep): the pieces between the occurrences of sep
RECURSIVE Split(_, _)
Split(s, sep) ==
    IF \A k \in 1..Len(s) : s[k] # sep
    THEN <<s>>
    ELSE LET k == CHOOSE j \in 1..Len(s) : s[j] = sep /\ \A h \in 1..(j - 1) : s[h] # sep
         IN  <<SubSeq(s, 1, k - 1)>> \o Split(SubSeq(s, k + 1, Len(s)), sep)

\* int(read_path.name.split(".")[0].split("_")[1]): IndexError when the stem
\* has no "_", ValueError when the piece after the first "_" is not a number.
FilenameIndex(name) ==
    LET stem  == Split(name, ".")[1]
        parts == Split(stem, "_")
    IN  IF Len(parts) < 2 THEN [ok |-> FALSE, i |-> 0]
        ELSE IF Len(parts[2]) = 1 /\ IsInt(parts[2][1])
             THEN [ok |-> TRUE, i |-> ParseInt(parts[2][1])]
             ELSE [ok |-> FALSE, i |-> 0]

\* A path is its directory (a sequence of components) and its file name.
MkPath(dir, name) == [dir |-> dir, name |-> name]

\* the value pandas shows for a manifest cell that was never assigned
NaN == [dir |-> <<>>, name |-> <<"nan">>]

\* ------------------------------------------------------------------ steps
StepNames == {"raw", "invert", "sum", "plot", "mappedraw", "mappedinvert", "mappedsum", "fancyplot"}

MappedSteps == {"mappedraw", "mappedinvert", "mappedsum"}

DownstreamSteps == StepNames \ {"raw", "mappedraw"}

project_local_staging_dir == <<"local_staging">>

step_local_staging_dir(s) == Append(project_local_staging_dir, s)

ManifestPath(s) == MkPath(step_local_staging_dir(s), ManifestName)

\* a layout in which MappedInvert stores under "inverse"
OutputSubdir_inverse(s) ==
    CASE s = "raw" -> "matrices"
      [] s = "mappedraw" -> "matrices"
      [] s = "invert" -> "inverted"
      [] s = "mappedinvert" -> "inverse"
      [] s = "sum" -> "vectors"
      [] s = "mappedsum" -> "sum"
      [] s = "plot" -> "plots"
      [] s = "fancyplot" -> "fancyplots"

\* the directory each step stores its artifacts in
OutputSubdir(s) ==
    CASE s = "raw" -> "matrices"
      [] s = "mappedraw" -> "matrices"
      [] s = "invert" -> "inverted"
      [] s = "mappedinvert" -> "inverted"
      [] s = "sum" -> "vectors"
      [] s = "mappedsum" -> "sum"
      [] s = "plot" -> "plots"
      [] s = "fancyplot" -> "fancyplots"

OutputDir(s) == Append(step_local_staging_dir(s), OutputSubdir(s))

\* the default of direct_upstream_tasks in each downstream step's __init__
direct_upstream_tasks(s) ==
    CASE s = "invert" -> "raw"
      [] s = "sum" -> "invert"
      [] s = "plot" -> "sum"
      [] s = "fancyplot" -> "sum"
      [] s = "mappedinvert" -> "mappedraw"
      [] s = "mappedsum" -> "mappedinvert"

\* the manifest a downstream step reads when run without an input
DefaultUpstream(s) ==
    CASE s = "invert" -> "raw"
      [] s = "sum" -> "raw"
      [] s = "plot" -> "sum"
      [] s = "fancyplot" -> "sum"
      [] s = "mappedinvert" -> "mappedraw"
      [] s = "mappedsum" -> "mappedinvert"

\* --------------------------------------------------------------- manifest
\* the frame a wrong index=range(1, n + 1) would build
DataFrame_fromOne(n) == [k \in 1..n |-> [label |-> k, value |-> NaN]]

\* pd.DataFrame(index=range(n), columns=["filepath"]): n rows labelled
\* 0..n-1, every cell NaN.
DataFrame(n) == [k \in 1..n |-> [label |-> k - 1, value |-> NaN]]

\* df.at[i, "filepath"] = v: assigns the row labelled i, and appends a row
\* labelled i when the frame has none.
SetAt(df, i, v) ==
    IF \E k \in 1..Len(df) : df[k].label = i
    THEN [k \in 1..Len(df) |-> IF df[k].label = i THEN [label |-> i, value |-> v] ELSE df[k]]
    ELSE Append(df, [label |-> i, value |-> v])

\* df.to_csv(path, index=False) and list(df["filepath"]): the cells in row
\* order, without the labels.
Column(df) == [k \in 1..Len(df) |-> df[k].value]

\* ------------------------------------------------------------------ state
VARIABLES
    files,      \* the paths of the regular files on disk
    dirs,       \* the directories on disk
    csv,        \* the filepath column of each step's manifest.csv on disk
    pc,         \* "idle", "mapped" (a mapped step waits in gather), "flow", "done", "failed"
    step,       \* the step (or "all") whose operation ran last or is running
    arg,        \* the argument that operation was called with
    inputs,     \* the list of paths the running step resolved its argument to
    manifest,   \* self.manifest of the running step: the in-memory data frame
    ret,        \* what run returned
    tasks,      \* the per-index tasks the running mapped step submitted
    wrote,      \* the paths the last action wrote
    writer,     \* every write so far: who wrote which path
    ops,        \* number of operations started
    flow,       \* state of each task of the flow built by All.run
    calls,      \* the step operations an aggregator call has invoked, in order
    kw,         \* the keyword arguments of the call: clean, n, m, seed
    generated,  \* the arrays the running Raw or MappedRaw has generated, by index
    vectors,    \* Fancyplot's fill loop: the vectors it loads, in list order
    plot_matrix, \* Fancyplot's fill loop: the plotting matrix
    fill_i,     \* Fancyplot's fill loop: the number of iterations done
    fill_pc     \* Fancyplot's fill loop: "none", "loop", "reordered", "failed"

\* the variables of the fill loop of Fancyplot.run
fillvars == <<vectors, plot_matrix, fill_i, fill_pc>>

\* the disk, the run in progress, the flow and the aggregator
stagingvars == <<files, dirs, csv, pc, step, arg, inputs, manifest, ret, tasks, wrote, writer, ops,
                 flow, calls, kw, generated>>

vars == <<files, dirs, csv, pc, step, arg, inputs, manifest, ret, tasks, wrote, writer, ops, flow,
          calls, kw, generated, vectors, plot_matrix, fill_i, fill_pc>>

\* ----------------------------------------------------------------- inputs
\* Matrices that exist outside the staging directory and that a caller may
\* pass to a step directly.
ExtDirs == {<<"a">>}

ExtFiles == {MkPath(<<"a">>, MatrixName(0)), MkPath(<<"a">>, MatrixName(1))}

\* The paths a caller puts in a list: the outside matrices, and the first
\* matrix of the Raw step, which shares its file name with a/matrix_0.npy
\* and which is on disk only once Raw.run has produced it.
InputPaths == ExtFiles \cup {MkPath(<<"local_staging", "raw", "matrices">>, MatrixName(0))}

\* a manifest path that names no file
MissingManifest == MkPath(<<"a">>, ManifestName)

\* the lists of at most n different elements of S, in every order (a list
\* that names one artifact twice reaches a step through a manifest)
RECURSIVE SeqsUpTo(_, _)
SeqsUpTo(S, n) ==
    IF n = 0 THEN {<<>>}
    ELSE LET shorter == SeqsUpTo(S, n - 1)
             longest == {r \in shorter : Len(r) = n - 1}
         IN  shorter \cup UNION {{Append(q, x) : x \in S \ {q[k] : k \in 1..Len(q)}} : q \in longest}

ArgN(n) == [kind |-> "n", n |-> n, path |-> NaN, list |-> <<>>]

ArgDefault == [kind |-> "default", n |-> 0, path |-> NaN, list |-> <<>>]

ArgPath(p) == [kind |-> "path", n |-> 0, path |-> p, list |-> <<>>]

ArgList(l) == [kind |-> "list", n |-> 0, path |-> NaN, list |-> l]

ArgOp(o) == [kind |-> o, n |-> 0, path |-> NaN, list |-> <<>>]

RawArgs == {ArgN(n) : n \in 0..MaxN}

DownstreamArgs ==
    {ArgDefault}
    \cup {ArgPath(p) : p \in {ManifestPath(s) : s \in StepNames} \cup {MissingManifest}}
    \cup {ArgList(l) : l \in SeqsUpTo(InputPaths, MaxLen)}

\* a keyword argument the caller did not pass
NotGiven == -1

\* the keyword arguments of a call besides its input: All.run's clean, and
\* the n, m and seed of Raw.run, MappedRaw.run and of All.run's **kwargs
Kw(clean, n, m, seed) == [clean |-> clean, n |-> n, m |-> m, seed |-> seed]

NoKw == Kw(FALSE, NotGiven, NotGiven, NotGiven)

\* the shapes m and the seeds a caller passes
Shapes == {2}

Seeds == {1, 2}

\* Raw.run(n, m, seed) and MappedRaw.run(n, m, seed); n is the argument
RawKwargs == {Kw(FALSE, NotGiven, m, sd) : m \in Shapes, sd \in Seeds}

\* All.run(clean=...), and All.run(n=1, m=..., seed=1)
RunKwargs ==
    {Kw(c, NotGiven, NotGiven, NotGiven) : c \in BOOLEAN}
    \cup {Kw(FALSE, 1, m, 1) : m \in Shapes}

\* what run returns: a list of paths, or (Plot, Fancyplot) one bare path
NoRet == [kind |-> "none", list |-> <<>>, path |-> NaN]

RetList(l) == [kind |-> "list", list |-> l, path |-> NaN]

RetPath(p) == [kind |-> "path", list |-> <<>>, path |-> p]

\* ------------------------------------------------------------ file system
Parent(d) == SubSeq(d, 1, Len(d) - 1)

\* Path.mkdir(exist_ok=True): FileNotFoundError unless the parent exists
MkdirOk(ds, d) == d \in ds \/ Parent(d) \in ds

RECURSIVE Ancestors(_)
Ancestors(d) == IF Len(d) = 0 THEN {} ELSE {d} \cup Ancestors(Parent(d))

\* Path.mkdir(parents=True, exist_ok=True)
MkdirParents(ds, d) == ds \cup Ancestors(d)

\* a lenient read that takes a missing manifest for an empty one
ManifestReadable_lenient(fs, p) == TRUE

\* Path(matrices).resolve(strict=True) followed by pd.read_csv: both raise
\* FileNotFoundError when no file is there.
ManifestReadable(fs, p) == p \in fs

\* [Path(f) for f in raw_data[filepath_column]]: an empty cell is read back
\* as NaN, and Path(NaN) raises TypeError.
ReadManifest(fs, cs, p) ==
    IF ~ManifestReadable(fs, p) THEN [ok |-> FALSE, list |-> <<>>]
    ELSE LET rows == IF p \in DOMAIN cs THEN cs[p] ELSE <<>>
         IN  IF \E k \in 1..Len(rows) : rows[k] = NaN
             THEN [ok |-> FALSE, list |-> <<>>]
             ELSE [ok |-> TRUE, list |-> rows]

\* the first lines of every downstream run: the default manifest, then the
\* manifest read when the argument is a path, else the list as given
ResolveInput(s, a, fs, cs) ==
    CASE a.kind = "list" -> [ok |-> TRUE, list |-> a.list]
      [] a.kind = "path" -> ReadManifest(fs, cs, a.path)
      [] OTHER -> ReadManifest(fs, cs, ManifestPath(DefaultUpstream(s)))

\* What a file holds follows from where it lies: the arrays passed in from
\* outside are matrices, Raw and MappedRaw save the matrices they generate,
\* Invert and MappedInvert the inverse they computed, Sum and MappedSum the
\* vector they reduced a matrix to; every other file is no array.
Kind(p) ==
    CASE p \in ExtFiles -> "matrix"
      [] p.dir \in {OutputDir(s) : s \in {"raw", "mappedraw", "invert", "mappedinvert"}} -> "matrix"
      [] p.dir \in {OutputDir(s) : s \in {"sum", "mappedsum"}} -> "vector"
      [] OTHER -> "other"

\* np.load raises when the file is missing or is not a saved array
LoadOk(fs, p) == p \in fs /\ Kind(p) \in {"matrix", "vector"}

\* np.linalg.inv raises LinAlgError on a vector
InvOk(p) == Kind(p) = "matrix"

\* np.amax(mat, 0) of a vector is a scalar, which np.sort refuses
ReduceOk(p) == Kind(p) = "matrix"

\* plot_matrix[i, :] = vec raises unless vec is a vector
FillOk(p) == Kind(p) = "vector"

\* ---------------------------------------------------------- random arrays
\* the generator of a process in which nobody called np.random.seed
NoSeed == -2

\* np.random.rand(m, m): the array a generator seeded with seed gives as its
\* k-th (k from 0) array of that shape
Rand(seed, m, k) == [seed |-> seed, m |-> m, k |-> k]

\* an array of a generator the run did not seed: no seeded draw equals it
Unseeded(m) == Rand(NoSeed, m, 0)

\* the place of an array that is not generated yet
NoArray == Rand(NoSeed, 0, 0)

\* Raw.run: np.random.seed(seed), then x = np.random.rand(m, m) once per
\* index, in index order and in the same process
RawArrays(n, k) == [i \in 1..n |-> Rand(k.seed, k.m, i - 1)]

\* how many arrays the tasks of this run have drawn so far from the
\* generator MappedRaw.run seeded in its own process
SeededDraws(g, k) == Cardinality({i \in 1..Len(g) : g[i].seed = k.seed})

\* MappedRaw._generate_array runs on a worker of the pool: in the process
\* that called np.random.seed it takes the next array of that generator, in
\* any other worker process an array of a generator nobody seeded
WorkerDraws(g, k) == {Rand(k.seed, k.m, SeededDraws(g, k)), Unseeded(k.m)}

\* ------------------------------------------------------- sequential steps
\* The local state of a run: the disk as the run has changed it so far, the
\* in-memory manifest, the list the run will return, and whether it raised.
RunState(fs, ds, df) == [files |-> fs, dirs |-> ds, manifest |-> df, out |-> <<>>, err |-> FALSE]

Raised(st) == [st EXCEPT !.err = TRUE]

\* a run that raised before it touched the disk or built its manifest
FailedEarly(fs, ds) == Raised(RunState(fs, ds, <<>>))

RawSavePath(i) == MkPath(OutputDir("raw"), MatrixName(i))

InvertSavePath(matrix) == MkPath(OutputDir("invert"), matrix.name)

\* a Sum that names its vectors like the matrices it read
SumSavePath_matrix(i) == MkPath(OutputDir("sum"), MatrixName(i))

SumSavePath(i) == MkPath(OutputDir("sum"), VectorName(i))

PlotSavePath == MkPath(OutputDir("plot"), <<"plot", ".", "png">>)

FancyplotSavePath == MkPath(OutputDir("fancyplot"), <<"plot", "_", "fancy", ".", "png">>)

\* one iteration of a loop body: save to p, manifest.at[i] = p, append p
Saved(st, i, p) ==
    [st EXCEPT !.files = @ \cup {p}, !.manifest = SetAt(@, i, p), !.out = Append(@, p)]

\* Raw.run: for i in range(n)
RECURSIVE RawLoop(_, _, _)
RawLoop(i, n, st) ==
    IF i >= n THEN st
    ELSE RawLoop(i + 1, n, Saved(st, i, RawSavePath(i)))

RawRun(n, fs, ds) ==
    IF ~MkdirOk(ds, OutputDir("raw")) THEN Raised(RunState(fs, ds, DataFrame(n)))
    ELSE RawLoop(0, n, RunState(fs, ds \cup {OutputDir("raw")}, DataFrame(n)))

\* Invert.run: for i, matrix in enumerate(matrices); k is i + 1
RECURSIVE InvertLoop(_, _, _)
InvertLoop(k, matrices, st) ==
    IF k > Len(matrices) THEN st
    ELSE IF ~LoadOk(st.files, matrices[k]) \/ ~InvOk(matrices[k]) THEN Raised(st)
    ELSE InvertLoop(k + 1, matrices, Saved(st, k - 1, InvertSavePath(matrices[k])))

InvertRun(a, fs, ds, cs) ==
    LET in == ResolveInput("invert", a, fs, cs)
        df == DataFrame(Len(in.list))
    IN  IF ~in.ok THEN FailedEarly(fs, ds)
        ELSE IF ~MkdirOk(ds, OutputDir("invert")) THEN Raised(RunState(fs, ds, df))
        ELSE InvertLoop(1, in.list, RunState(fs, ds \cup {OutputDir("invert")}, df))

\* Sum.run: for i, matrix in enumerate(matrices)
RECURSIVE SumLoop(_, _, _)
SumLoop(k, matrices, st) ==
    IF k > Len(matrices) THEN st
    ELSE IF ~LoadOk(st.files, matrices[k]) \/ ~ReduceOk(matrices[k]) THEN Raised(st)
    ELSE SumLoop(k + 1, matrices, Saved(st, k - 1, SumSavePath(k - 1)))

SumRun(a, fs, ds, cs) ==
    LET in == ResolveInput("sum", a, fs, cs)
        df == DataFrame(Len(in.list))
    IN  IF ~in.ok THEN FailedEarly(fs, ds)
        ELSE IF ~MkdirOk(ds, OutputDir("sum")) THEN Raised(RunState(fs, ds, df))
        ELSE SumLoop(1, in.list, RunState(fs, ds \cup {OutputDir("sum")}, df))

\* Plot.run: every vector is loaded and drawn, then one figure is saved and
\* a one-row manifest built.
PlotRun(a, fs, ds, cs) ==
    LET in == ResolveInput("plot", a, fs, cs)
    IN  IF ~in.ok THEN FailedEarly(fs, ds)
        ELSE IF ~MkdirOk(ds, OutputDir("plot")) THEN FailedEarly(fs, ds)
        ELSE IF \E k \in 1..Len(in.list) : ~LoadOk(fs, in.list[k])
             THEN FailedEarly(fs, ds \cup {OutputDir("plot")})
        ELSE Saved(RunState(fs, ds \cup {OutputDir("plot")}, DataFrame(1)), 0, PlotSavePath)

\* Fancyplot.run: as Plot.run, but m is bound only inside the fill loop, so
\* the reordering after the loop raises NameError on an empty list.
FancyplotRun(a, fs, ds, cs) ==
    LET in == ResolveInput("fancyplot", a, fs, cs)
    IN  IF ~in.ok THEN FailedEarly(fs, ds)
        ELSE IF ~MkdirOk(ds, OutputDir("fancyplot")) THEN FailedEarly(fs, ds)
        ELSE IF \E k \in 1..Len(in.list) : ~LoadOk(fs, in.list[k]) \/ ~FillOk(in.list[k])
             THEN FailedEarly(fs, ds \cup {OutputDir("fancyplot")})
        ELSE IF Len(in.list) = 0
             THEN FailedEarly(fs, ds \cup {OutputDir("fancyplot")})
        ELSE Saved(RunState(fs, ds \cup {OutputDir("fancyplot")}, DataFrame(1)), 0, FancyplotSavePath)

SeqRun(s, a, fs, ds, cs) ==
    CASE s = "raw" -> RawRun(a.n, fs, ds)
      [] s = "invert" -> InvertRun(a, fs, ds, cs)
      [] s = "sum" -> SumRun(a, fs, ds, cs)
      [] s = "plot" -> PlotRun(a, fs, ds, cs)
      [] s = "fancyplot" -> FancyplotRun(a, fs, ds, cs)

\* the value a sequential run returns: the list it built, or Plot's and
\* Fancyplot's plot_save_path
SeqReturn(s, st) ==
    IF s \notin {"plot", "fancyplot"} THEN RetList(st.out)
    ELSE IF Len(st.out) = 0 THEN NoRet
    ELSE RetPath(st.out[1])

\* no call is in progress: the caller may start the next operation
Idle == pc = "idle"

\* an end of run that saves the manifest built so far even when the run raised
Complete_always(s, a, st, rv) ==
    /\ dirs' = st.dirs
    /\ manifest' = st.manifest
    /\ step' = s
    /\ arg' = a
    /\ files' = st.files \cup {ManifestPath(s)}
    /\ csv' = [csv EXCEPT ![ManifestPath(s)] = Column(st.manifest)]
    /\ pc' = IF st.err THEN "failed" ELSE "done"
    /\ ret' = IF st.err THEN NoRet ELSE rv
    /\ wrote' = {st.out[k] : k \in 1..Len(st.out)} \cup {ManifestPath(s)}
    /\ writer' = writer \cup {[by |-> s, path |-> p] : p \in wrote'}

\* The end of a run: manifest.to_csv and return, unless the run raised.
Complete(s, a, st, rv) ==
    /\ dirs' = st.dirs
    /\ manifest' = st.manifest
    /\ step' = s
    /\ arg' = a
    /\ IF st.err
       THEN /\ files' = st.files
            /\ csv' = csv
            /\ pc' = "failed"
            /\ ret' = NoRet
       ELSE /\ files' = st.files \cup {ManifestPath(s)}
            /\ csv' = [csv EXCEPT ![ManifestPath(s)] = Column(st.manifest)]
            /\ pc' = "done"
            /\ ret' = rv
    /\ wrote' = {st.out[k] : k \in 1..Len(st.out)} \cup (IF st.err THEN {} ELSE {ManifestPath(s)})
    /\ writer' = writer \cup {[by |-> s, path |-> p] : p \in wrote'}

\* Raw.run, Invert.run, Sum.run, Plot.run, Fancyplot.run, each a whole run
StepRun(s, a, k) ==
    /\ Idle
    /\ ops < MaxOps
    /\ LET st == SeqRun(s, a, files, dirs, csv)
       IN  /\ Complete(s, a, st, SeqReturn(s, st))
           /\ generated' = IF s = "raw" THEN RawArrays(Len(st.out), k) ELSE <<>>
    /\ inputs' = IF s = "raw" THEN <<>> ELSE ResolveInput(s, a, files, csv).list
    /\ tasks' = <<>>
    /\ kw' = k
    /\ ops' = ops + 1
    /\ UNCHANGED <<flow, calls>>
    /\ UNCHANGED fillvars

\* ----------------------------------------------------------- mapped steps
\* A task submitted by client.map: its arguments (i for _generate_array,
\* read_path for _invert_array and _sum_array), its status, the path it
\* saved and the (i, path) pair it returned.
Task(i, p) == [i |-> i, read_path |-> p, status |-> "pending", saved |-> NaN, ri |-> 0, rpath |-> NaN]

\* client.map(self._generate_array, range(n), ...)
RawTasks(n) == [k \in 1..n |-> Task(k - 1, NaN)]

\* client.map(self._invert_array, matrices, ...), and the same for _sum_array
PathTasks(matrices) == [k \in 1..Len(matrices) |-> Task(0, matrices[k])]

MappedRawSavePath(i) == MkPath(OutputDir("mappedraw"), MatrixName(i))

MappedInvertSavePath(read_path) == MkPath(OutputDir("mappedinvert"), read_path.name)

\* a MappedSum that saves into the directory of the Sum step
MappedSumSavePath_sumdir(read_path) == MkPath(OutputDir("sum"), read_path.name)

MappedSumSavePath(read_path) == MkPath(OutputDir("mappedsum"), read_path.name)

TaskDone(t, i, p) == [t EXCEPT !.status = "done", !.saved = p, !.ri = i, !.rpath = p]

TaskError(t, p) == [t EXCEPT !.status = "error", !.saved = p]

\* MappedRaw._generate_array
GenerateArray(t) == TaskDone(t, t.i, MappedRawSavePath(t.i))

\* MappedInvert._invert_array: load, invert, save, then parse the index
InvertArray(t, fs) ==
    IF ~LoadOk(fs, t.read_path) \/ ~InvOk(t.read_path) THEN TaskError(t, NaN)
    ELSE LET p   == MappedInvertSavePath(t.read_path)
             idx == FilenameIndex(t.read_path.name)
         IN  IF idx.ok THEN TaskDone(t, idx.i, p) ELSE TaskError(t, p)

\* MappedSum._sum_array: load, reduce, save, then parse the index
SumArray(t, fs) ==
    IF ~LoadOk(fs, t.read_path) \/ ~ReduceOk(t.read_path) THEN TaskError(t, NaN)
    ELSE LET p   == MappedSumSavePath(t.read_path)
             idx == FilenameIndex(t.read_path.name)
         IN  IF idx.ok THEN TaskDone(t, idx.i, p) ELSE TaskError(t, p)

RunTask(s, t, fs) ==
    CASE s = "mappedraw" -> GenerateArray(t)
      [] s = "mappedinvert" -> InvertArray(t, fs)
      [] s = "mappedsum" -> SumArray(t, fs)

\* a gather that returns as soon as one future has finished
GatherReady_any(ts) == \E k \in 1..Len(ts) : ts[k].status = "done"

\* client.gather(futures) returns once every future has finished
GatherReady(ts) == \A k \in 1..Len(ts) : ts[k].status = "done"

\* client.gather(futures) raises the exception of a task that raised
GatherRaises(ts) == \E k \in 1..Len(ts) : ts[k].status = "error"

\* for i, path in infos: self.manifest.at[i, "filepath"] = path, over the
\* results in the order of the futures
RECURSIVE FillManifest(_, _, _)
FillManifest(k, ts, df) ==
    IF k > Len(ts) THEN df
    ELSE FillManifest(k + 1, ts, SetAt(df, ts[k].ri, ts[k].rpath))

\* MappedRaw.run, MappedInvert.run, MappedSum.run up to client.map
MapSubmit(s, a, k) ==
    /\ Idle
    /\ ops < MaxOps
    /\ LET in == IF s = "mappedraw" THEN [ok |-> TRUE, list |-> <<>>]
                 ELSE ResolveInput(s, a, files, csv)
       IN  /\ pc' = IF in.ok THEN "mapped" ELSE "failed"
           /\ tasks' = IF ~in.ok THEN <<>>
                       ELSE IF s = "mappedraw" THEN RawTasks(a.n)
                       ELSE PathTasks(in.list)
           /\ inputs' = in.list
    /\ step' = s
    /\ arg' = a
    /\ manifest' = <<>>
    /\ ret' = NoRet
    /\ wrote' = {}
    /\ kw' = k
    /\ generated' = IF s = "mappedraw" THEN [i \in 1..a.n |-> NoArray] ELSE <<>>
    /\ ops' = ops + 1
    /\ UNCHANGED <<files, dirs, csv, writer, flow, calls>>
    /\ UNCHANGED fillvars

\* a worker runs one submitted task: the whole static method
TaskRun(k) ==
    /\ step \in MappedSteps
    /\ pc = "mapped"
    /\ k \in 1..Len(tasks)
    /\ tasks[k].status = "pending"
    /\ LET t == RunTask(step, tasks[k], files)
       IN  /\ tasks' = [tasks EXCEPT ![k] = t]
           /\ wrote' = {t.saved} \ {NaN}
           /\ files' = files \cup wrote'
           /\ dirs' = IF wrote' = {} THEN dirs ELSE MkdirParents(dirs, OutputDir(step))
    /\ writer' = writer \cup {[by |-> step, path |-> p] : p \in wrote'}
    /\ IF step = "mappedraw"
       THEN \E x \in WorkerDraws(generated, kw) :
                generated' = [generated EXCEPT ![tasks[k].i + 1] = x]
       ELSE generated' = generated
    /\ UNCHANGED <<csv, pc, step, arg, inputs, manifest, ret, ops, flow, calls, kw>>
    /\ UNCHANGED fillvars

\* gather returns; the manifest is built, written and returned
Gather ==
    /\ pc = "mapped"
    /\ GatherReady(tasks)
    /\ manifest' = FillManifest(1, tasks, DataFrame(Len(tasks)))
    /\ csv' = [csv EXCEPT ![ManifestPath(step)] = Column(manifest')]
    /\ files' = files \cup {ManifestPath(step)}
    /\ ret' = RetList(Column(manifest'))
    /\ pc' = "done"
    /\ wrote' = {ManifestPath(step)}
    /\ writer' = writer \cup {[by |-> step, path |-> p] : p \in wrote'}
    /\ UNCHANGED <<dirs, step, arg, inputs, tasks, ops, flow, calls, kw, generated>>
    /\ UNCHANGED fillvars

\* leaving "with worker_client()" by an exception releases the futures: the
\* tasks no worker has taken yet are never run
Released(ts) ==
    [k \in 1..Len(ts) |->
        IF ts[k].status = "pending" THEN [ts[k] EXCEPT !.status = "cancelled"] ELSE ts[k]]

\* gather raises: run raises with it, and no manifest is built
GatherError ==
    /\ pc = "mapped"
    /\ GatherRaises(tasks)
    /\ pc' = "failed"
    /\ tasks' = Released(tasks)
    /\ wrote' = {}
    /\ UNCHANGED <<files, dirs, csv, step, arg, inputs, manifest, ret, writer, ops, flow, calls>>
    /\ UNCHANGED <<kw, generated>>
    /\ UNCHANGED fillvars

\* ------------------------------------------------------------------- flow
\* first index of generate_array.map(range(10, 100))
FlowFirst == 10

FlowRange == FlowFirst..(FlowFirst + MaxFlow - 1)

FlowKinds == <<"generate_array", "invert_array", "sum_array">>

\* LocalResult(dir=...) of each mapped task
FlowResultDir(kind) ==
    CASE kind = "generate_array" -> <<"local_staging", "raw">>
      [] kind = "invert_array" -> <<"local_staging", "inv">>
      [] kind = "sum_array" -> <<"local_staging", "sum">>

\* target: "{}.npy".format(index) inside the result directory
FlowTarget(kind, i) == MkPath(FlowResultDir(kind), TargetName(i))

BasicPlotPath == MkPath(<<"local_staging", "plots">>, <<"basic", ".", "png">>)

FlowNone == [kind \in {FlowKinds[j] : j \in 1..3} |-> [i \in FlowRange |-> "none"]]

Finished(status) == status \in {"success", "cached"}

\* generate_array(n): ArrayManager(n, np.random.rand(n, n)), an n x n array
\* of a generator that All.run never seeds
FlowArray(i) == Unseeded(i)

\* a flow whose mapped tasks wait for nothing
UpstreamFinished_unordered(fl, j, i) == TRUE

\* invert_array.map(ams) and sum_array.map(ams): the task of stage j for
\* index i takes the result of the task of stage j - 1 for the same index
UpstreamFinished(fl, j, i) == j > 1 => Finished(fl.tasks[FlowKinds[j - 1]][i])

\* All.run: the flow is built and flow.run starts; no task has run yet
AllRun(k) ==
    /\ Idle
    /\ ops < MaxOps
    /\ pc' = "flow"
    /\ step' = "all"
    /\ arg' = ArgOp("run")
    /\ kw' = k
    /\ generated' = <<>>
    /\ UNCHANGED fillvars
    /\ flow' = [tasks |-> [kind \in DOMAIN FlowNone |-> [i \in FlowRange |-> "pending"]],
                basic_plot |-> "pending"]
    /\ tasks' = <<>>
    /\ inputs' = <<>>
    /\ manifest' = <<>>
    /\ ret' = NoRet
    /\ wrote' = {}
    /\ ops' = ops + 1
    /\ UNCHANGED <<files, dirs, csv, writer, calls>>

\* One mapped task of stage j for index i: it runs once the task of the
\* stage before it has finished for the same index; when its target file
\* exists the stored result is used and nothing is written.
FlowTask(j, i) ==
    /\ pc = "flow"
    /\ flow.tasks[FlowKinds[j]][i] = "pending"
    /\ UpstreamFinished(flow, j, i)
    /\ LET target == FlowTarget(FlowKinds[j], i)
       IN  IF target \in files
           THEN /\ flow' = [flow EXCEPT !.tasks[FlowKinds[j]][i] = "cached"]
                /\ wrote' = {}
                /\ UNCHANGED <<files, dirs>>
           ELSE /\ flow' = [flow EXCEPT !.tasks[FlowKinds[j]][i] = "success"]
                /\ wrote' = {target}
                /\ files' = files \cup {target}
                /\ dirs' = MkdirParents(dirs, target.dir)
    /\ writer' = writer \cup {[by |-> FlowKinds[j], path |-> p] : p \in wrote'}
    /\ UNCHANGED <<csv, pc, step, arg, inputs, manifest, ret, tasks, ops, calls, kw, generated>>
    /\ UNCHANGED fillvars

\* basic_plot(ams): runs once every sum_array task has finished
BasicPlot ==
    /\ pc = "flow"
    /\ flow.basic_plot = "pending"
    /\ \A i \in FlowRange : Finished(flow.tasks["sum_array"][i])
    /\ flow' = [flow EXCEPT !.basic_plot = "success"]
    /\ dirs' = MkdirParents(dirs, BasicPlotPath.dir)
    /\ files' = files \cup {BasicPlotPath}
    /\ wrote' = {BasicPlotPath}
    /\ writer' = writer \cup {[by |-> "basic_plot", path |-> p] : p \in wrote'}
    /\ UNCHANGED <<csv, pc, step, arg, inputs, manifest, ret, tasks, ops, calls, kw, generated>>
    /\ UNCHANGED fillvars

\* flow.run returns and All.run with it
FlowEnd ==
    /\ pc = "flow"
    /\ flow.basic_plot = "success"
    /\ pc' = "done"
    /\ wrote' = {}
    /\ UNCHANGED <<files, dirs, csv, step, arg, inputs, manifest, ret, tasks, writer, ops, flow, calls>>
    /\ UNCHANGED <<kw, generated>>
    /\ UNCHANGED fillvars

\* ------------------------------------------------------------- aggregator
\* The attributes of an All object.  The class defines no __init__ and no
\* class attribute besides its methods, and nothing assigns step_list.
AllObject == [name \in {} |-> <<>>]

AllOps == {"pull", "checkout", "push", "clean"}

\* All.pull, All.checkout, All.push, All.clean:
\* for step in self.step_list: step.<op>()
AllCall(o) ==
    /\ Idle
    /\ ops < MaxOps
    /\ IF "step_list" \in DOMAIN AllObject
       THEN /\ calls' = [k \in 1..Len(AllObject["step_list"]) |->
                            [step |-> AllObject["step_list"][k], op |-> o]]
            /\ pc' = "done"
       ELSE /\ calls' = <<>>
            /\ pc' = "failed"
    /\ step' = "all"
    /\ arg' = ArgOp(o)
    /\ tasks' = <<>>
    /\ inputs' = <<>>
    /\ manifest' = <<>>
    /\ ret' = NoRet
    /\ wrote' = {}
    /\ kw' = NoKw
    /\ generated' = <<>>
    /\ ops' = ops + 1
    /\ UNCHANGED <<files, dirs, csv, writer, flow>>
    /\ UNCHANGED fillvars

\* The call has ended, by a return or by an exception: the caller lets go of
\* the step object and of what the call returned, and the futures of a failed
\* mapped run are released with it.
Return ==
    /\ pc \in {"done", "failed"}
    /\ pc' = "idle"
    /\ step' = "none"
    /\ arg' = ArgOp("none")
    /\ inputs' = <<>>
    /\ manifest' = <<>>
    /\ ret' = NoRet
    /\ tasks' = <<>>
    /\ wrote' = {}
    /\ kw' = NoKw
    /\ generated' = <<>>
    /\ UNCHANGED <<files, dirs, csv, writer, ops, flow, calls>>
    /\ UNCHANGED fillvars

\* ------------------------------------------- the fill loop of Fancyplot.run
\* The steps above take an array for what its place on disk says it is; the
\* fill loop is modelled on the values of the vectors it loads.
\* an entry of a loaded vector that is NaN; every other entry is 0 or 1
NaNEntry == -1

Entries == {0, 1, NaNEntry}

\* np.load(vec): a vector of one to MaxVecLen entries
Vectors == UNION {[1..len -> Entries] : len \in 1..MaxVecLen}

\* the lists of at most n vectors
RECURSIVE VectorLists(_)
VectorLists(n) ==
    IF n = 0 THEN {<<>>}
    ELSE LET shorter == VectorLists(n - 1)
         IN  shorter \cup {Append(l, v) : l \in {r \in shorter : Len(r) = n - 1}, v \in Vectors}

\* plot_matrix = np.nan before the loop
ScalarNaN == <<<<NaNEntry>>>>

\* np.any(np.isnan(plot_matrix))
AnyIsNaN(pm) == \E r \in 1..Len(pm) : \E c \in 1..Len(pm[r]) : pm[r][c] = NaNEntry

\* np.zeros([n, m])
Zeros(n, m) == [r \in 1..n |-> [c \in 1..m |-> 0]]

\* One iteration of the loop, for i = fill_i: the matrix is allocated when
\* np.any(np.isnan(plot_matrix)) holds, then plot_matrix[i, :] = vec, which
\* raises ValueError when vec has not the length of a row.
FillStep ==
    /\ fill_pc = "loop"
    /\ fill_i < Len(vectors)
    /\ LET vec == vectors[fill_i + 1]
           pm  == IF AnyIsNaN(plot_matrix) THEN Zeros(Len(vectors), Len(vec)) ELSE plot_matrix
       IN  IF Len(vec) = Len(pm[1])
           THEN /\ plot_matrix' = [pm EXCEPT ![fill_i + 1] = vec]
                /\ fill_i' = fill_i + 1
                /\ fill_pc' = "loop"
           ELSE /\ plot_matrix' = pm
                /\ fill_i' = fill_i
                /\ fill_pc' = "failed"
    /\ UNCHANGED vectors
    /\ UNCHANGED stagingvars

\* argsort puts NaN after every number
SortKey(x) == IF x = NaNEntry THEN 2 ELSE x

\* the orders argsort may give: the rows ascending in column m - 1, rows
\* with equal entries there in either order
ArgSorts(pm) ==
    LET n == Len(pm)
        m == Len(pm[1])
    IN  {o \in [1..n -> 1..n] :
            /\ \A a, b \in 1..n : a # b => o[a] # o[b]
            /\ \A a \in 1..(n - 1) : SortKey(pm[o[a]][m]) <= SortKey(pm[o[a + 1]][m])}

\* after the loop: plot_matrix = plot_matrix[plot_matrix[:, m - 1].argsort()];
\* m is bound only inside the loop, so an empty list raises NameError
FillReorder ==
    /\ fill_pc = "loop"
    /\ fill_i = Len(vectors)
    /\ IF Len(vectors) = 0
       THEN /\ fill_pc' = "failed"
            /\ plot_matrix' = plot_matrix
       ELSE /\ fill_pc' = "reordered"
            /\ \E o \in ArgSorts(plot_matrix) :
                   plot_matrix' = [r \in 1..Len(plot_matrix) |-> plot_matrix[o[r]]]
    /\ UNCHANGED <<vectors, fill_i>>
    /\ UNCHANGED stagingvars

\* ---------------------------------------------------------- specification
StagingInit ==
    /\ files = ExtFiles
    /\ dirs = ExtDirs \cup {project_local_staging_dir}
                      \cup {step_local_staging_dir(s) : s \in StepNames}
    /\ csv = [p \in {ManifestPath(s) : s \in StepNames} |-> <<>>]
    /\ pc = "idle"
    /\ step = "none"
    /\ arg = ArgOp("none")
    /\ inputs = <<>>
    /\ manifest = <<>>
    /\ ret = NoRet
    /\ tasks = <<>>
    /\ wrote = {}
    /\ writer = {}
    /\ ops = 0
    /\ flow = [tasks |-> FlowNone, basic_plot |-> "none"]
    /\ calls = <<>>
    /\ kw = NoKw
    /\ generated = <<>>

\* the steps, the flow and the aggregator, with no fill loop under study
Init ==
    /\ StagingInit
    /\ vectors = <<>>
    /\ plot_matrix = ScalarNaN
    /\ fill_i = 0
    /\ fill_pc = "none"

\* Fancyplot.run at its fill loop, on any list of loaded vectors
FillInit ==
    /\ StagingInit
    /\ vectors \in VectorLists(MaxLen)
    /\ plot_matrix = ScalarNaN
    /\ fill_i = 0
    /\ fill_pc = "loop"

Raw_run == \E a \in RawArgs, k \in RawKwargs : StepRun("raw", a, k)

Invert_run == \E a \in DownstreamArgs : StepRun("invert", a, NoKw)

Sum_run == \E a \in DownstreamArgs : StepRun("sum", a, NoKw)

Plot_run == \E a \in DownstreamArgs : StepRun("plot", a, NoKw)

Fancyplot_run == \E a \in DownstreamArgs : StepRun("fancyplot", a, NoKw)

MappedRaw_run == \E a \in RawArgs, k \in RawKwargs : MapSubmit("mappedraw", a, k)

MappedInvert_run == \E a \in DownstreamArgs : MapSubmit("mappedinvert", a, NoKw)

MappedSum_run == \E a \in DownstreamArgs : MapSubmit("mappedsum", a, NoKw)

All_run == \E k \in RunKwargs : AllRun(k)

Worker == \E k \in 1..Len(tasks) : TaskRun(k)

FlowWorker == \E j \in 1..3, i \in FlowRange : FlowTask(j, i)

All_call == \E o \in AllOps : AllCall(o)

Next ==
    \/ Raw_run
    \/ Invert_run
    \/ Sum_run
    \/ Plot_run
    \/ Fancyplot_run
    \/ MappedRaw_run
    \/ MappedInvert_run
    \/ MappedSum_run
    \/ Worker
    \/ Gather
    \/ GatherError
    \/ All_run
    \/ FlowWorker
    \/ BasicPlot
    \/ FlowEnd
    \/ All_call
    \/ Return

Spec == Init /\ [][Next]_vars

FillNext ==
    \/ FillStep
    \/ FillReorder

\* the fill loop of Fancyplot.run on every list of vectors
SpecFill == FillInit /\ [][FillNext]_vars

\* ----------------------------------------------------------------- claims
\* the artifacts the last run produced, in the order of the loop or of the
\* submitted tasks
Produced ==
    IF step \in MappedSteps
    THEN [k \in 1..Len(tasks) |-> tasks[k].saved]
    ELSE IF ret.kind = "path" THEN <<ret.path>>
    ELSE ret.list

ProducedSet == {Produced[k] : k \in 1..Len(Produced)} \ {NaN}

\* how many artifacts the last run saved
ProducedCount == Cardinality({k \in 1..Len(Produced) : Produced[k] # NaN})

OnDiskManifest == csv[ManifestPath(step)]

\* C1: when Raw.run(n) has completed, the step's manifest has exactly n rows
\* and the returned list has exactly n paths, for every n >= 0.
C1_RawManifestAndReturnHaveNRows ==
    (pc = "done" /\ step = "raw") =>
        /\ Len(manifest) = arg.n
        /\ Len(csv[ManifestPath("raw")]) = arg.n
        /\ ret.kind = "list"
        /\ Len(ret.list) = arg.n
        /\ \A k \in 1..Len(ret.list) : ret.list[k] # NaN

C1_Witness == pc = "done" /\ step = "raw" /\ arg.n >= 2 /\ Len(ret.list) = arg.n

\* C2: when a mapped step's run has completed, every row position i of the
\* written manifest holds the path of the artifact whose file name carries
\* the index i.
C2_RowPositionIsFilenameIndex ==
    (pc = "done" /\ step \in MappedSteps) =>
        \A k \in 1..Len(OnDiskManifest) :
            /\ OnDiskManifest[k] # NaN
            /\ FilenameIndex(OnDiskManifest[k].name).ok
            /\ FilenameIndex(OnDiskManifest[k].name).i = k - 1

\* C3: within one run of a mapped step no two of the submitted tasks write
\* the same file path.
C3_TasksWriteDistinctPaths ==
    step \in MappedSteps =>
        \A j, k \in 1..Len(tasks) :
            (j # k /\ tasks[j].saved # NaN /\ tasks[k].saved # NaN)
                => tasks[j].saved # tasks[k].saved

\* C4: when a step's run has completed, its manifest has one row per
\* artifact the run produced: as many rows as artifacts, and every row holds
\* the path of one of them.
C4_OneRowPerArtifact ==
    (pc = "done" /\ step \in StepNames) =>
        /\ Len(OnDiskManifest) = ProducedCount
        /\ \A k \in 1..Len(OnDiskManifest) : OnDiskManifest[k] \in ProducedSet

\* C5: a mapped step writes manifest.csv only when every task it submitted
\* has completed.
C5_ManifestAfterAllTasks ==
    (step \in MappedSteps /\ ManifestPath(step) \in wrote) =>
        \A k \in 1..Len(tasks) : tasks[k].status = "done"

C5_Witness ==
    /\ step \in MappedSteps
    /\ ManifestPath(step) \in wrote
    /\ Len(tasks) >= 2

\* the manifest path a downstream run was given, explicitly or by default
GivenManifest(s, a) ==
    IF a.kind = "path" THEN a.path ELSE ManifestPath(DefaultUpstream(s))

Within(d, root) == Len(d) >= Len(root) /\ SubSeq(d, 1, Len(root)) = root

\* the directory a step or a flow task owns
OwnDir(by) ==
    CASE by \in StepNames -> <<"local_staging", by>>
      [] by = "basic_plot" -> <<"local_staging", "plots">>
      [] OTHER -> FlowResultDir(by)

WritesInsideOwnDir == \A w \in writer : Within(w.path.dir, OwnDir(w.by))

\* C7 as claimed: every step and flow task writes only inside its own output
\* directory, and no file path and no directory is written by two different
\* steps or tasks.
C7_NoSharedPathOrDirectory ==
    /\ WritesInsideOwnDir
    /\ \A w1, w2 \in writer :
           w1.by # w2.by => (w1.path # w2.path /\ w1.path.dir # w2.path.dir)

\* C7 as the code has it: every step and flow task writes only inside its
\* own output directory and no file path is written by two of them; the only
\* directories two of them write into are local_staging/raw (the Raw step
\* and the flow's generate_array) and local_staging/sum (the Sum step and
\* the flow's sum_array).
C7_NoSharedPath ==
    /\ WritesInsideOwnDir
    /\ \A w1, w2 \in writer :
           w1.by # w2.by =>
               /\ w1.path # w2.path
               /\ w1.path.dir = w2.path.dir =>
                      {w1.by, w2.by} \in {{"raw", "generate_array"}, {"sum", "sum_array"}}

C7_Witness ==
    \E w1, w2 \in writer :
        /\ w1.by = "raw"
        /\ w2.by = "generate_array"
        /\ w1.path.dir = w2.path.dir

IsManifestOf(p, s) == p = MkPath(<<"local_staging", s>>, <<"manifest", ".", "csv">>)

InSubdir(p, s, subs) ==
    /\ Len(p.dir) = 3
    /\ p.dir[1] = "local_staging"
    /\ p.dir[2] = s
    /\ p.dir[3] \in subs

ManifestWrittenWhenDone ==
    (pc = "done" /\ step \in StepNames) =>
        \E w \in writer : w.by = step /\ IsManifestOf(w.path, step)

\* C8 as claimed: every file written, by a step or by the flow, is either
\* local_staging/<step_name>/manifest.csv or lies in local_staging/<step_name>/
\* under matrices, inverted, vectors or plots, and every completed step run
\* has written its manifest.
C8_LayoutAsSpecified ==
    /\ \A w \in writer :
           \E s \in StepNames :
               \/ IsManifestOf(w.path, s)
               \/ InSubdir(w.path, s, {"matrices", "inverted", "vectors", "plots"})
    /\ ManifestWrittenWhenDone

\* the subdirectory each step uses
StepSubdir ==
    [raw |-> "matrices", mappedraw |-> "matrices", invert |-> "inverted",
     mappedinvert |-> "inverted", sum |-> "vectors", mappedsum |-> "sum",
     plot |-> "plots", fancyplot |-> "fancyplots"]

\* the directory each flow task stores into
FlowDir ==
    [generate_array |-> "raw", invert_array |-> "inv", sum_array |-> "sum",
     basic_plot |-> "plots"]

\* C8 as the code has it: a step writes local_staging/<step_name>/manifest.csv
\* and its artifacts under local_staging/<step_name>/ in matrices (Raw,
\* MappedRaw), inverted (Invert, MappedInvert), vectors (Sum), sum
\* (MappedSum), plots (Plot) or fancyplots (Fancyplot); the flow writes no
\* manifest and stores directly in local_staging/raw, inv, sum and plots.
C8_LayoutOfTheCode ==
    /\ \A w \in writer :
           IF w.by \in StepNames
           THEN \/ IsManifestOf(w.path, w.by)
                \/ InSubdir(w.path, w.by, {StepSubdir[w.by]})
           ELSE /\ w.path.dir = <<"local_staging", FlowDir[w.by]>>
                /\ w.path.name # <<"manifest", ".", "csv">>
    /\ ManifestWrittenWhenDone

C8_Witness ==
    /\ pc = "done"
    /\ step = "mappedinvert"
    /\ \E w \in writer : w.by = "mappedinvert" /\ InSubdir(w.path, "mappedinvert", {"inverted"})
    /\ \E w \in writer : w.by # "mappedinvert" /\ ~IsManifestOf(w.path, w.by)

IndexedName(label, i) == <<label, "_", Digits[i + 1], ".", "npy">>

ArrayLabel(s) == IF s \in {"sum", "mappedsum"} THEN "vector" ELSE "matrix"

ArraySteps == StepNames \ {"plot", "fancyplot"}

\* the runs whose artifacts the naming claims are about: a completed run,
\* and also a mapped run whose tasks are still being worked on
CompletedArrayRun == step \in ArraySteps /\ pc = "done"

NamingCase == step \in ArraySteps /\ (pc = "done" \/ step \in MappedSteps)

\* C9 as claimed: every matrix of Raw, MappedRaw, Invert and MappedInvert is
\* named matrix_{i} and every vector of Sum and MappedSum vector_{i}; i is
\* the position for Raw, MappedRaw and Sum, and any index for the others.
C9_NamedByLabelAndIndex ==
    CompletedArrayRun =>
        \A k \in 1..Len(Produced) :
            Produced[k] # NaN =>
                IF step \in {"raw", "mappedraw", "sum"}
                THEN Produced[k].name = IndexedName(ArrayLabel(step), k - 1)
                ELSE \E i \in 0..(Len(Digits) - 1) :
                         Produced[k].name = IndexedName(ArrayLabel(step), i)

\* C9 as the code has it: the k-th matrix of Raw and MappedRaw is named
\* matrix_{k} and the k-th vector of Sum vector_{k} (k from 0), while Invert,
\* MappedInvert and MappedSum give each artifact the file name of the input
\* it was computed from.
C9_NamedByIndexOrInput ==
    NamingCase =>
        /\ step \notin {"raw", "mappedraw"} => Len(Produced) <= Len(inputs)
        /\ \A k \in 1..Len(Produced) :
               Produced[k] # NaN =>
                   IF step \in {"raw", "mappedraw", "sum"}
                   THEN Produced[k].name = IndexedName(ArrayLabel(step), k - 1)
                   ELSE Produced[k].name = inputs[k].name

C9_Witness ==
    /\ pc = "done"
    /\ step = "sum"
    /\ Len(Produced) >= 2

\* C10: a call of pull, checkout, push or clean on an All object completes
\* without error and has invoked that operation once on every step of the
\* object's step list, in list order.
C10_AggregatorCallsEveryStep ==
    (step = "all" /\ arg.kind \in AllOps) =>
        /\ pc = "done"
        /\ "step_list" \in DOMAIN AllObject
        /\ calls = [k \in 1..Len(AllObject["step_list"]) |->
                       [step |-> AllObject["step_list"][k], op |-> arg.kind]]

\* the files inside the local staging directory
StagingFiles == {p \in files : Within(p.dir, project_local_staging_dir)}

\* C11: a call of All.run with clean=True starts its flow on a cleaned local
\* staging directory (no file of an earlier run is left in it), and a call
\* with clean=False starts it on the directory as it was.
C11_CleanFlagCleansStaging ==
    [][(pc = "idle" /\ pc' = "flow")
       => IF kw'.clean
          THEN StagingFiles' = {}
          ELSE files' = files /\ dirs' = dirs /\ csv' = csv]_vars

\* the indices whose generate_array task has produced or found its matrix
FlowGenerated == {i \in FlowRange : Finished(flow.tasks["generate_array"][i])}

\* C12: when a call All.run(n=.., m=.., seed=..) has completed, its flow has
\* generated n matrices, each of shape m x m and drawn from a generator
\* seeded with seed.
C12_OverridesTakeEffect ==
    (pc = "done" /\ step = "all" /\ arg.kind = "run" /\ kw.n # NotGiven) =>
        /\ Cardinality(FlowGenerated) = kw.n
        /\ \A i \in FlowGenerated :
               /\ FlowArray(i).m = kw.m
               /\ FlowArray(i).seed = kw.seed

\* has the task of this kind for index i started (the model runs a task in
\* one step, so a started task has finished)
FlowStarted(kind, i) == flow.tasks[kind][i] \notin {"none", "pending"}

\* C13: in the flow of All.run, for every index the invert task starts only
\* after the generate task of that index has finished, the sum task only
\* after its invert task has finished, and the plot task only after the sum
\* tasks of all indices have finished.
C13_StagesRunInOrder ==
    /\ \A i \in FlowRange :
           /\ FlowStarted("invert_array", i) => Finished(flow.tasks["generate_array"][i])
           /\ FlowStarted("sum_array", i) => Finished(flow.tasks["invert_array"][i])
    /\ flow.basic_plot \notin {"none", "pending"} =>
           \A i \in FlowRange : Finished(flow.tasks["sum_array"][i])

C13_Witness ==
    /\ pc = "flow"
    /\ \E i, h \in FlowRange :
           /\ FlowStarted("sum_array", i)
           /\ ~FlowStarted("generate_array", h)

\* C14: a downstream step run without an input has read the manifest that
\* its declared direct upstream step wrote: that manifest is on disk and
\* the step's inputs are its rows.
C14_DefaultIsDeclaredUpstream ==
    (step \in DownstreamSteps /\ arg.kind = "default" /\ pc \in {"done", "mapped"}) =>
        /\ ManifestPath(direct_upstream_tasks(step)) \in files
        /\ inputs = csv[ManifestPath(direct_upstream_tasks(step))]

\* C15: when Plot.run or Fancyplot.run has completed, it has returned a list
\* of paths, and that list equals the filepath column of the manifest it
\* wrote, which has one row.
C15_PlotReturnsListOfManifestRows ==
    (pc = "done" /\ step \in {"plot", "fancyplot"}) =>
        /\ Len(OnDiskManifest) = 1
        /\ ret.kind = "list"
        /\ ret.list = OnDiskManifest

\* the file names of a list of paths, an empty cell included
Names(l) == [k \in 1..Len(l) |-> l[k].name]

\* Invert.run on the inputs of the MappedInvert.run that has just completed
InvertOnSameInputs == InvertRun(ArgList(inputs), files, dirs, csv)

\* C16: when MappedInvert.run has completed on a list of matrices,
\* Invert.run on the same list completes too, the two manifests hold the same
\* file name at every row, and the two returned lists have the same length
\* and the same file names in the same order.
C16_InvertAndMappedInvertAgree ==
    (pc = "done" /\ step = "mappedinvert") =>
        /\ ~InvertOnSameInputs.err
        /\ Names(Column(InvertOnSameInputs.manifest)) = Names(OnDiskManifest)
        /\ Names(InvertOnSameInputs.out) = Names(ret.list)

\* the files in the directory a step stores its artifacts in
FilesInOutputDir(s) == {p \in files : p.dir = OutputDir(s)}

\* C18: whenever a Raw.run (or MappedRaw.run) has completed, whatever runs
\* went before it, the files in the step's matrices directory are exactly
\* the paths listed in its manifest.
C18_MatricesDirEqualsManifest ==
    (pc = "done" /\ step \in {"raw", "mappedraw"}) =>
        FilesInOutputDir(step) = {OnDiskManifest[k] : k \in 1..Len(OnDiskManifest)}

\* the manifest files on disk
ManifestFiles == {p \in files : p.name = ManifestName}

\* the paths a manifest on disk lists
Listed(p) == {csv[p][k] : k \in 1..Len(csv[p])}

\* C17: no step of any execution changes a manifest on disk except the step
\* that completes a run, which replaces the manifest of that run's step, and
\* no other, by the complete manifest of the run: all its rows, listing every
\* artifact the run saved.  A run that fails leaves every manifest as it was.
C17_ManifestOldOrComplete ==
    [][/\ (csv' # csv \/ ManifestFiles' # ManifestFiles) =>
              /\ pc' = "done"
              /\ step' \in StepNames
              /\ \A p \in DOMAIN csv : p # ManifestPath(step') => csv'[p] = csv[p]
              /\ ManifestFiles' = ManifestFiles \cup {ManifestPath(step')}
              /\ csv'[ManifestPath(step')] = Column(manifest')
              /\ ProducedSet' \subseteq {manifest'[k].value : k \in 1..Len(manifest')}
       /\ pc' \in {"failed", "mapped"} =>
              (csv' = csv /\ ManifestFiles' = ManifestFiles)]_vars

C17_Witness ==
    /\ pc = "failed"
    /\ step \in {"invert", "sum"}
    /\ ManifestPath(step) \in files
    /\ Len(OnDiskManifest) > 0
    /\ \E p \in wrote : p \notin Listed(ManifestPath(step))

\* C19: two runs of Raw.run, or of MappedRaw.run, with the same n, m and
\* seed generate the same matrix at every index, whatever worker runs each
\* task and in whatever order: the matrix at index i is the one the
\* generator seeded with seed gives as its i-th array of shape m x m, which
\* is what a run gives whose draws happen in index order in the seeded
\* process.
C19_SameSeedSameMatrices ==
    (pc = "done" /\ step \in {"raw", "mappedraw"}) =>
        \A i \in 1..Len(generated) : generated[i] = Rand(kw.seed, kw.m, i - 1)

\* the vectors of the list all have one length
EqualLength == \A a, b \in 1..Len(vectors) : Len(vectors[a]) = Len(vectors[b])

\* C20: on a non-empty list of equal-length vectors, when the fill loop of
\* Fancyplot.run has ended, row i of the plotting matrix is input vector i
\* for every i, also when a vector holds a NaN; and after the reordering the
\* rows are those vectors in ascending order of their last element.
C20_FillKeepsEveryRow ==
    (Len(vectors) > 0 /\ EqualLength /\ fill_i = Len(vectors)) =>
        /\ fill_pc = "loop" => plot_matrix = vectors
        /\ fill_pc = "reordered" =>
               \E o \in ArgSorts(vectors) :
                   plot_matrix = [r \in 1..Len(vectors) |-> vectors[o[r]]]

====
